---- MODULE Spec2Model ----
(***************************************************************************)
(* paasta_tools/oom_logger.py: the OOM log scanner, the runtime resolver,  *)
(* the enricher and the three sinks, driven by main().                     *)
(*                                                                         *)
(* Text is modelled as follows.  A syslog line is a record                 *)
(*   [ts, host, frags]                                                     *)
(* for the text "<ts> <host> <frag> <frag> ...": ts and host are tuples of *)
(* characters, frags is the tuple of the message's fragments, each a       *)
(* record [k, txt].  The kind k names the literal text around the payload  *)
(* txt that one of the regular expressions looks for:                      *)
(*   "procname"      "...] <txt> invoked oom-killer:"                      *)
(*   "docker"        "Task in /docker/<txt> killed as a"                   *)
(*   "kubepods"      "Task in /kubepods/burstable/pod1/<txt> killed as a"  *)
(*   "structured"    "oom-kill:...,task_memcg=/kubepods/pod1/<txt>,..."    *)
(*   "systemd"       "oom-kill:...,task_memcg=/kubepods.slice/x-docker-<txt>.scope,..." *)
(*   "nerdctl"       "oom-kill:...,task_memcg=/system.slice/nerdctl-<txt>.scope,..."    *)
(* For the kill kinds txt is the id segment of the cgroup path, a tuple of *)
(* word characters; for "procname" it is the process name, a string.       *)
(***************************************************************************)
EXTENDS Integers, Sequences, FiniteSets, TLC

\* ------------------------------------------------------------------ bounds
\* number of lines main() reads from stdin before the stream ends
MaxLines == 3

\* ------------------------------------------------------------ text helpers
Rep(c, n) == [i \in 1..n |-> c]

Digits == {"0", "1", "2", "3", "4", "5", "6", "7", "8", "9"}

\* [a-zA-Z0-9\-] restricted to the characters the inputs use
HostChars == Digits \cup {"n", "o", "d", "e", "A", "B", "-"}

DigitVal(c) ==
    CASE c = "0" -> 0 [] c = "1" -> 1 [] c = "2" -> 2 [] c = "3" -> 3
      [] c = "4" -> 4 [] c = "5" -> 5 [] c = "6" -> 6 [] c = "7" -> 7
      [] c = "8" -> 8 [] c = "9" -> 9

\* int(r.group(1))
RECURSIVE ToInt(_)
ToInt(s) ==
    IF s = <<>> THEN 0
    ELSE 10 * ToInt(SubSeq(s, 1, Len(s) - 1)) + DigitVal(s[Len(s)])

\* the ids the regular expressions capture: \w{12} and \w{12}\w{52}
ShortIdLen == 12
LongIdLen == 64

NoMatch == [matched |-> FALSE, g1 |-> <<>>, g2 |-> <<>>, g3 |-> <<>>]

\* ^(\d+)\s([a-zA-Z0-9\-]+)\s  : the head every expression starts with
HeadMatches(syslog) ==
    /\ Len(syslog.ts) >= 1
    /\ \A i \in 1..Len(syslog.ts) : syslog.ts[i] \in Digits
    /\ Len(syslog.host) >= 1
    /\ \A i \in 1..Len(syslog.host) : syslog.host[i] \in HostChars

\* The fragments of kind k whose payload has at least minlen characters.
\* The leading ".*" of every expression is greedy, so the search settles on
\* the last fragment that lets the rest of the expression match.
Candidates(syslog, k, minlen) ==
    {i \in 1..Len(syslog.frags) :
        /\ syslog.frags[i].k = k
        /\ Len(syslog.frags[i].txt) >= minlen}

LastCandidate(syslog, k, minlen) ==
    LET c == Candidates(syslog, k, minlen)
    IN CHOOSE i \in c : \A j \in c : j <= i

\* A kill expression whose id group is (\w{12}) or (\w{64}) followed by \w+
\* (more >= 1) or \w* (more = 0)
FixedIdSearch(syslog, k, idlen, more) ==
    IF HeadMatches(syslog) /\ Candidates(syslog, k, idlen + more) # {}
    THEN [matched |-> TRUE, g1 |-> syslog.ts, g2 |-> syslog.host,
          g3 |-> SubSeq(syslog.frags[LastCandidate(syslog, k, idlen + more)].txt,
                        1, idlen)]
    ELSE NoMatch

\* OptionalLongIdSearch without the optional (?:\w{52})
OptionalLongIdSearch_AlwaysShort(syslog, k) ==
    FixedIdSearch(syslog, k, ShortIdLen, 0)

\* A kill expression whose id group is (\w{12}(?:\w{52})?) followed by \w*
OptionalLongIdSearch(syslog, k) ==
    IF HeadMatches(syslog) /\ Candidates(syslog, k, ShortIdLen) # {}
    THEN LET seg == syslog.frags[LastCandidate(syslog, k, ShortIdLen)].txt
         IN [matched |-> TRUE, g1 |-> syslog.ts, g2 |-> syslog.host,
             g3 |-> IF Len(seg) >= LongIdLen
                    THEN SubSeq(seg, 1, LongIdLen)
                    ELSE SubSeq(seg, 1, ShortIdLen)]
    ELSE NoMatch

\* ----------------------------------------------------------- the patterns
\* ^\d+\s[a-zA-Z0-9\-]+\s.*\]\s(.+)\sinvoked\soom-killer:
process_name_regex(syslog) ==
    LET c == {i \in 1..Len(syslog.frags) :
                 syslog.frags[i].k = "procname" /\ syslog.frags[i].txt # ""}
    IN IF HeadMatches(syslog) /\ c # {}
       THEN [matched |-> TRUE,
             g1 |-> syslog.frags[CHOOSE i \in c : \A j \in c : j <= i].txt]
       ELSE [matched |-> FALSE, g1 |-> ""]

oom_regex_docker(syslog) == FixedIdSearch(syslog, "docker", ShortIdLen, 1)

oom_regex_kubernetes(syslog) == OptionalLongIdSearch(syslog, "kubepods")

oom_regex_kubernetes_containerd_systemd_cgroup(syslog) ==
    FixedIdSearch(syslog, "nerdctl", LongIdLen, 0)

oom_regex_kubernetes_structured(syslog) ==
    OptionalLongIdSearch(syslog, "structured")

oom_regex_kubernetes_systemd_cgroup(syslog) ==
    FixedIdSearch(syslog, "systemd", ShortIdLen, 1)

\* event_detail_regexes with the structured expression tried first
event_detail_regexes_Reordered ==
    << "oom_regex_kubernetes_structured",
       "oom_regex_docker",
       "oom_regex_kubernetes",
       "oom_regex_kubernetes_systemd_cgroup",
       "oom_regex_kubernetes_containerd_systemd_cgroup" >>

event_detail_regexes ==
    << "oom_regex_docker",
       "oom_regex_kubernetes",
       "oom_regex_kubernetes_structured",
       "oom_regex_kubernetes_systemd_cgroup",
       "oom_regex_kubernetes_containerd_systemd_cgroup" >>

\* expression.search(syslog)
Search(expression, syslog) ==
    CASE expression = "oom_regex_docker" -> oom_regex_docker(syslog)
      [] expression = "oom_regex_kubernetes" -> oom_regex_kubernetes(syslog)
      [] expression = "oom_regex_kubernetes_structured" ->
            oom_regex_kubernetes_structured(syslog)
      [] expression = "oom_regex_kubernetes_systemd_cgroup" ->
            oom_regex_kubernetes_systemd_cgroup(syslog)
      [] expression = "oom_regex_kubernetes_containerd_systemd_cgroup" ->
            oom_regex_kubernetes_containerd_systemd_cgroup(syslog)

\* for expression in event_detail_regexes: ... if r: yield ...; break
RECURSIVE FirstMatch(_, _)
FirstMatch(syslog, n) ==
    IF n > Len(event_detail_regexes) THEN NoMatch
    ELSE LET r == Search(event_detail_regexes[n], syslog)
         IN IF r.matched THEN r ELSE FirstMatch(syslog, n + 1)

\* ------------------------------------------------- get_container_env_as_dict
\* A Python dict-or-None value: none is TRUE for None, d is the dict otherwise.
\* The dicts are functions from key strings to values.
PyNone == [none |-> TRUE, d |-> <<>>]

PyDict(d) == [none |-> FALSE, d |-> d]

\* dict.get(key) on a dict whose values are dict-or-None records
DictGet(d, key) == IF key \in DOMAIN d THEN d[key] ELSE PyNone

\* Partition on the last "=", as rpartition does
Partition_OnLastEq(i) ==
    LET eqs == {p \in 1..Len(i) : i[p] = "="}
    IN IF eqs = {} THEN [name |-> i, value |-> <<>>]
       ELSE LET p == CHOOSE q \in eqs : \A r \in eqs : q >= r
            IN [name |-> SubSeq(i, 1, p - 1),
                value |-> SubSeq(i, p + 1, Len(i))]

\* A string of an environment list is the tuple of its "="-free pieces and
\* its "=" characters: "A=b=c" is <<"A", "=", "b", "=", "c">>.
\* i.partition("="): split on the first "="; without one the name is the
\* whole string and the value is empty.
Partition(i) ==
    LET eqs == {p \in 1..Len(i) : i[p] = "="}
    IN IF eqs = {} THEN [name |-> i, value |-> <<>>]
       ELSE LET p == CHOOSE q \in eqs : \A r \in eqs : q <= r
            IN [name |-> SubSeq(i, 1, p - 1),
                value |-> SubSeq(i, p + 1, Len(i))]

\* for i in env: name, _, value = i.partition("="); env_vars[name] = value
RECURSIVE EnvLoop(_, _, _)
EnvLoop(env, n, env_vars) ==
    IF n > Len(env) THEN env_vars
    ELSE LET kv == Partition(env[n])
         IN EnvLoop(env, n + 1,
                    [k \in DOMAIN env_vars \cup {kv.name} |->
                        IF k = kv.name THEN kv.value ELSE env_vars[k]])

\* config.get("env", []) is evaluated before the "config is not None" test:
\* on None it raises AttributeError.
get_container_env_as_dict(is_cri_containerd, inspect) ==
    LET config == IF is_cri_containerd THEN DictGet(inspect, "process")
                  ELSE DictGet(inspect, "Config")
        envkey == IF is_cri_containerd THEN "env" ELSE "Env"
    IN IF config.none
       THEN [raised |-> "AttributeError", env_vars |-> <<>>]
       ELSE [raised |-> "",
             env_vars |-> EnvLoop(IF envkey \in DOMAIN config.d
                                  THEN config.d[envkey] ELSE <<>>,
                                  1, <<>>)]

\* env_vars.get(key, default); keys and values are strings of one piece
EnvGet(env_vars, key, default) ==
    IF <<key>> \in DOMAIN env_vars THEN env_vars[<<key>>] ELSE <<default>>

\* ------------------------------------------------------------ the inputs
nodeA == <<"n", "o", "d", "e", "A">>

nodeB == <<"n", "o", "d", "e", "B">>

Frag(k, txt) == [k |-> k, txt |-> txt]

\* id segments of cgroup paths: 18, 64 and 13 word characters
SegA == Rep("a", 12) \o Rep("f", 6)

SegB == Rep("b", 60) \o Rep("e", 4)

SegC == Rep("c", 13)

\* The lines stdin delivers
Lines ==
    { \* "<ts> nodeA kernel: [ 1] java invoked oom-killer: ..."
      [ts |-> <<"1", "7">>, host |-> nodeA, frags |-> <<Frag("procname", "java")>>],
      \* the same from another host
      [ts |-> <<"1", "8">>, host |-> nodeB, frags |-> <<Frag("procname", "python")>>],
      \* "<ts> nodeB kernel: Task in /kubepods/burstable/pod1/<64> killed as a ..."
      [ts |-> <<"0", "2", "0">>, host |-> nodeB, frags |-> <<Frag("kubepods", SegB)>>],
      \* a line of the structured layout that also holds a /docker/ kill text
      [ts |-> <<"2", "1">>, host |-> nodeA,
       frags |-> <<Frag("structured", SegC), Frag("docker", SegA)>>],
      \* a process-name text and a kill text on one line
      [ts |-> <<"2", "2">>, host |-> nodeB,
       frags |-> <<Frag("procname", "ruby"), Frag("docker", SegC)>>],
      \* a line no expression matches: the host name is outside [a-zA-Z0-9\-]
      [ts |-> <<"2", "4">>, host |-> <<"n", "_", "A">>,
       frags |-> <<Frag("procname", "perl"), Frag("docker", SegA)>>] }

\* The environment lists a container may declare
EnvLists ==
    { << <<"PAASTA_SERVICE", "=", "web">>, <<"PAASTA_INSTANCE", "=", "main">> >> }

\* What inspect_container returns / what the containerd spec decodes to: the
\* config section missing, null, without an environment list, or with one
Inspects(is_cri_containerd) ==
    LET key == IF is_cri_containerd THEN "process" ELSE "Config"
        envkey == IF is_cri_containerd THEN "env" ELSE "Env"
    IN { <<>>,
         [x \in {key} |-> PyNone],
         [x \in {key} |-> PyDict(<<>>)] }
       \cup { [x \in {key} |-> PyDict([y \in {envkey} |-> env])] : env \in EnvLists }

\* client.inspect_container(resource_id=...): APIError, or the inspect dict
DockerResponses ==
    { [err |-> "APIError", inspect |-> <<>>] }
    \cup { [err |-> "", inspect |-> i] : i \in Inspects(FALSE) }

\* get_containerd_container(...): grpc.RpcError, or a container whose
\* spec.value is bytes that are valid UTF-8 or not, holding valid JSON or not
ContainerdResponses ==
    { [err |-> "RpcError", utf8 |-> TRUE, json |-> TRUE, inspect |-> <<>>],
      [err |-> "", utf8 |-> FALSE, json |-> FALSE, inspect |-> <<>>],
      [err |-> "", utf8 |-> TRUE, json |-> FALSE, inspect |-> <<>>] }
    \cup { [err |-> "", utf8 |-> TRUE, json |-> TRUE, inspect |-> i] :
              i \in Inspects(TRUE) }

\* ------------------------------------------------------------- the state
VARIABLES
    clog,               \* TRUE when "import clog" succeeded
    yelp_meteorite,     \* TRUE when "import yelp_meteorite" succeeded
    args_containerd,    \* args.containerd
    pc,                 \* where main() is
    exit_status,        \* -1 while running, else the process's exit status
    exception,          \* the exception that left main(), "" if none
    cluster,            \* load_system_paasta_config().get_cluster()
    stdin_read,         \* the lines read from stdin so far
    process_name,       \* the scanner's process_name
    occurrence,         \* the tuple the scanner yielded last
    container_inspect,  \* main()'s container_inspect
    env_vars,           \* main()'s env_vars
    log_line,           \* main()'s log_line
    emitted,            \* history: the tuples yielded, with the line's number
    events              \* history: the calls made to backends, sinks, print

vars == << clog, yelp_meteorite, args_containerd, pc, exit_status, exception,
           cluster, stdin_read, process_name, occurrence, container_inspect,
           env_vars, log_line, emitted, events >>

NoOccurrence ==
    [timestamp |-> 0, hostname |-> <<>>, container_id |-> <<>>, process_name |-> ""]

NoLogLine ==
    [timestamp |-> 0, hostname |-> <<>>, container_id |-> <<>>, cluster |-> "",
     service |-> <<>>, instance |-> <<>>, process_name |-> "",
     mesos_container_id |-> <<>>, mem_limit |-> <<>>]

\* number of the line the current occurrence came from
CurLine == Len(stdin_read)

Event(ev, ok) == [ev |-> ev, line |-> CurLine, ok |-> ok]

Init ==
    /\ clog \in BOOLEAN
    /\ yelp_meteorite \in BOOLEAN
    /\ args_containerd \in BOOLEAN
    /\ pc = "main"
    /\ exit_status = -1
    /\ exception = ""
    /\ cluster = ""
    /\ stdin_read = <<>>
    /\ process_name = ""
    /\ occurrence = NoOccurrence
    /\ container_inspect = <<>>
    /\ env_vars = <<>>
    /\ log_line = NoLogLine
    /\ emitted = <<>>
    /\ events = <<>>

\* ---------------------------------------------------------------- main()
\* MainExits without the sys.exit(1): the message is printed and main goes on
MainExits_GoesOn ==
    /\ pc = "main"
    /\ ~clog
    /\ events' = Append(events, Event("print_stderr", TRUE))
    /\ pc' = "readline"
    /\ UNCHANGED << clog, yelp_meteorite, args_containerd, exit_status,
                    exception, cluster, stdin_read, process_name, occurrence,
                    container_inspect, env_vars, log_line, emitted >>

\* if clog is None: print(..., file=sys.stderr); sys.exit(1)
MainExits ==
    /\ pc = "main"
    /\ ~clog
    /\ events' = Append(events, Event("print_stderr", TRUE))
    /\ exit_status' = 1
    /\ pc' = "exited"
    /\ UNCHANGED << clog, yelp_meteorite, args_containerd, exception, cluster,
                    stdin_read, process_name, occurrence, container_inspect, env_vars,
                    log_line, emitted >>

\* parse_args, clog.config.configure, get_cluster, get_docker_client
MainStarts ==
    /\ pc = "main"
    /\ clog
    /\ cluster' = "norcal"
    /\ events' = Append(events, Event("get_docker_client", TRUE))
    /\ pc' = "readline"
    /\ UNCHANGED << clog, yelp_meteorite, args_containerd, exit_status,
                    exception, stdin_read, process_name, occurrence,
                    container_inspect, env_vars, log_line, emitted >>

\* ---------------------------------------------- capture_oom_events_from_stdin
\* NextProcessName that keeps a name already pending
NextProcessName_KeepsFirst(r, name) ==
    IF r.matched /\ name = "" THEN r.g1 ELSE name

\* NextProcessName that forgets the pending name on a line without one
NextProcessName_ClearsOnMiss(r, name) == IF r.matched THEN r.g1 ELSE ""

\* r = process_name_regex.search(syslog); if r: process_name = r.group(1)
NextProcessName(r, name) == IF r.matched THEN r.g1 ELSE name

\* GeneratorResumes without the reset of process_name
GeneratorResumes_NoReset ==
    /\ process_name' = process_name
    /\ pc' = "readline"

\* The generator is resumed after its yield: process_name = ""; break; and the
\* while loop is back at readline.
GeneratorResumes ==
    /\ process_name' = ""
    /\ pc' = "readline"

\* ReadLine with the kill expressions tried before process_name_regex: the
\* occurrence carries the name pending from the earlier lines
ReadLine_KillFirst(syslog) ==
    /\ pc = "readline"
    /\ Len(stdin_read) < MaxLines
    /\ stdin_read' = Append(stdin_read, syslog)
    /\ LET name == NextProcessName(process_name_regex(syslog), process_name)
           r == FirstMatch(syslog, 1)
       IN /\ process_name' = name
          /\ IF r.matched
             THEN LET t == [timestamp |-> ToInt(r.g1), hostname |-> r.g2,
                            container_id |-> r.g3, process_name |-> process_name]
                  IN /\ occurrence' = t
                     /\ emitted' = Append(emitted,
                                     [line |-> Len(stdin_read) + 1, occ |-> t])
                     /\ pc' = "resolve"
             ELSE UNCHANGED << occurrence, emitted, pc >>
    /\ UNCHANGED << clog, yelp_meteorite, args_containerd, exit_status,
                    exception, cluster, container_inspect, env_vars, log_line, events >>

\* One turn of the while loop on a line that is not the end of the stream:
\* up to the yield, or through to the next readline when nothing matches.
ReadLine(syslog) ==
    /\ pc = "readline"
    /\ Len(stdin_read) < MaxLines
    /\ stdin_read' = Append(stdin_read, syslog)
    /\ LET name == NextProcessName(process_name_regex(syslog), process_name)
           r == FirstMatch(syslog, 1)
       IN /\ process_name' = name
          /\ IF r.matched
             THEN LET t == [timestamp |-> ToInt(r.g1), hostname |-> r.g2,
                            container_id |-> r.g3, process_name |-> name]
                  IN /\ occurrence' = t
                     /\ emitted' = Append(emitted,
                                     [line |-> Len(stdin_read) + 1, occ |-> t])
                     /\ pc' = "resolve"
             ELSE UNCHANGED << occurrence, emitted, pc >>
    /\ UNCHANGED << clog, yelp_meteorite, args_containerd, exit_status,
                    exception, cluster, container_inspect, env_vars, log_line, events >>

\* ReadEndOfInput that lets the end of the stream leave main() as an error
ReadEndOfInput_Raises ==
    /\ pc = "readline"
    /\ pc' = "raised"
    /\ exit_status' = 1
    /\ exception' = "StopIteration"
    /\ UNCHANGED << clog, yelp_meteorite, args_containerd, cluster,
                    stdin_read, process_name, occurrence, container_inspect,
                    env_vars, log_line, emitted, events >>

\* if not syslog: break  -- the generator ends, the for loop ends, main returns
ReadEndOfInput ==
    /\ pc = "readline"
    /\ pc' = "returned"
    /\ exit_status' = 0
    /\ UNCHANGED << clog, yelp_meteorite, args_containerd, exception, cluster,
                    stdin_read, process_name, occurrence, container_inspect, env_vars,
                    log_line, emitted, events >>

\* ------------------------------------------------- main(): the resolver call
\* An exception nothing catches leaves main(): the process dies.
Raise(exc) ==
    /\ exception' = exc
    /\ exit_status' = 1
    /\ pc' = "raised"
    /\ UNCHANGED process_name

\* OnAPIError without the except clause: the APIError leaves main()
OnAPIError_Uncaught ==
    /\ events' = Append(events, Event("inspect_container", FALSE))
    /\ Raise("APIError")

\* except (APIError): continue
OnAPIError ==
    /\ events' = Append(events, Event("inspect_container", FALSE))
    /\ GeneratorResumes
    /\ UNCHANGED << exception, exit_status >>

\* OnRpcError that turns to the docker client when containerd fails
OnRpcError_FallsBackToDocker ==
    /\ events' = events \o << Event("containers.Get", FALSE),
                              Event("print", TRUE),
                              Event("inspect_container", TRUE) >>
    /\ pc' = "enrich"
    /\ UNCHANGED << exception, exit_status, process_name >>

\* except grpc.RpcError as e: print(...); continue
OnRpcError ==
    /\ events' = events \o << Event("containers.Get", FALSE),
                              Event("print", TRUE) >>
    /\ GeneratorResumes
    /\ UNCHANGED << exception, exit_status >>

\* container_info.spec.value.decode("utf-8"); json.loads(container_spec_raw)
\* stand outside the try: what they raise leaves main()
DecodeSpec(resp) ==
    IF ~resp.utf8 THEN "UnicodeDecodeError"
    ELSE IF ~resp.json THEN "JSONDecodeError"
    ELSE ""

DecodeCalls(resp) ==
    IF ~resp.utf8 THEN << Event("decode", FALSE) >>
    ELSE << Event("decode", TRUE), Event("json.loads", resp.json) >>

\* the else branch of "if args.containerd"
ResolveDocker(resp) ==
    /\ pc = "resolve"
    /\ ~args_containerd
    /\ IF resp.err = "APIError"
       THEN OnAPIError /\ UNCHANGED container_inspect
       ELSE /\ events' = Append(events, Event("inspect_container", TRUE))
            /\ container_inspect' = resp.inspect
            /\ pc' = "enrich"
            /\ UNCHANGED << exception, exit_status, process_name >>
    /\ UNCHANGED << clog, yelp_meteorite, args_containerd, cluster, stdin_read,
                    occurrence, env_vars, log_line, emitted >>

\* the then branch of "if args.containerd"
ResolveContainerd(resp) ==
    /\ pc = "resolve"
    /\ args_containerd
    /\ IF resp.err = "RpcError"
       THEN OnRpcError /\ UNCHANGED container_inspect
       ELSE /\ events' = Append(events, Event("containers.Get", TRUE))
                         \o DecodeCalls(resp)
            /\ IF DecodeSpec(resp) # ""
               THEN Raise(DecodeSpec(resp)) /\ UNCHANGED container_inspect
               ELSE /\ container_inspect' = resp.inspect
                    /\ pc' = "enrich"
                    /\ UNCHANGED << exception, exit_status, process_name >>
    /\ UNCHANGED << clog, yelp_meteorite, args_containerd, cluster, stdin_read,
                    occurrence, env_vars, log_line, emitted >>

\* ------------------------------------------------ main(): env_vars, LogLine
\* LogLine that falls back to every default as soon as PAASTA_SERVICE is absent
LogLine_AllOrNothing(occ, cl, env) ==
    LET e == IF <<"PAASTA_SERVICE">> \in DOMAIN env THEN env ELSE <<>>
    IN [timestamp |-> occ.timestamp,
        hostname |-> occ.hostname,
        container_id |-> occ.container_id,
        cluster |-> cl,
        service |-> EnvGet(e, "PAASTA_SERVICE", "unknown"),
        instance |-> EnvGet(e, "PAASTA_INSTANCE", "unknown"),
        process_name |-> occ.process_name,
        mesos_container_id |-> EnvGet(e, "MESOS_CONTAINER_NAME", "mesos-null"),
        mem_limit |-> EnvGet(e, "PAASTA_RESOURCE_MEM", "unknown")]

LogLine(occ, cl, env) ==
    [timestamp |-> occ.timestamp,
     hostname |-> occ.hostname,
     container_id |-> occ.container_id,
     cluster |-> cl,
     service |-> EnvGet(env, "PAASTA_SERVICE", "unknown"),
     instance |-> EnvGet(env, "PAASTA_INSTANCE", "unknown"),
     process_name |-> occ.process_name,
     mesos_container_id |-> EnvGet(env, "MESOS_CONTAINER_NAME", "mesos-null"),
     mem_limit |-> EnvGet(env, "PAASTA_RESOURCE_MEM", "unknown")]

Enrich ==
    /\ pc = "enrich"
    /\ LET r == get_container_env_as_dict(args_containerd, container_inspect)
       IN IF r.raised # ""
          THEN /\ events' = Append(events, Event("get_container_env_as_dict", FALSE))
               /\ Raise(r.raised)
               /\ UNCHANGED << env_vars, log_line >>
          ELSE /\ events' = Append(events, Event("get_container_env_as_dict", TRUE))
               /\ env_vars' = r.env_vars
               /\ log_line' = LogLine(occurrence, cluster, r.env_vars)
               /\ pc' = "log_to_clog"
               /\ UNCHANGED << exception, exit_status, process_name >>
    /\ UNCHANGED << clog, yelp_meteorite, args_containerd, cluster, stdin_read,
                    occurrence, container_inspect, emitted >>

\* ------------------------------------------------------ main(): the sinks
\* SinkCall that goes from log_to_clog straight to send_sfx_event
SinkCall_SkipsLogToPaasta(sink, raises, next) ==
    /\ events' = Append(events, Event(sink, ~raises))
    /\ IF raises
       THEN Raise("SinkError")
       ELSE /\ pc' = "send_sfx_event"
            /\ UNCHANGED << exception, exit_status, process_name >>

\* A call of a sink that returns moves on to the next statement; nothing in
\* main() catches what a sink raises.
SinkCall(sink, raises, next) ==
    /\ events' = Append(events, Event(sink, ~raises))
    /\ IF raises
       THEN Raise("SinkError")
       ELSE /\ pc' = next
            /\ UNCHANGED << exception, exit_status, process_name >>

\* log_to_clog(log_line)
LogToClog(raises) ==
    /\ pc = "log_to_clog"
    /\ SinkCall("log_to_clog", raises, "log_to_paasta")
    /\ UNCHANGED << clog, yelp_meteorite, args_containerd, cluster, stdin_read,
                    occurrence, container_inspect, env_vars, log_line, emitted >>

\* log_to_paasta(log_line)
LogToPaasta(raises) ==
    /\ pc = "log_to_paasta"
    /\ SinkCall("log_to_paasta", raises, "send_sfx_event")
    /\ UNCHANGED << clog, yelp_meteorite, args_containerd, cluster, stdin_read,
                    occurrence, container_inspect, env_vars, log_line, emitted >>

\* SfxCalls without the "if yelp_meteorite" test
SfxCalls_IgnoresAbsence(raises) ==
    IF raises THEN << Event("get_instance_config", FALSE) >>
    ELSE << Event("get_instance_config", TRUE), Event("emit_event", TRUE),
            Event("counter.count", TRUE) >>

\* What send_sfx_event does: nothing without yelp_meteorite; else the
\* get_instance_config lookup, which may raise, the event and the counter.
SfxCalls(raises) ==
    IF ~yelp_meteorite THEN <<>>
    ELSE IF raises THEN << Event("get_instance_config", FALSE) >>
    ELSE << Event("get_instance_config", TRUE), Event("emit_event", TRUE),
            Event("counter.count", TRUE) >>

\* send_sfx_event(service, instance, cluster), the last statement of the loop
\* body: when it returns the for loop resumes the generator
SendSfxEvent(raises) ==
    /\ pc = "send_sfx_event"
    /\ raises => yelp_meteorite
    /\ events' = Append(events, Event("send_sfx_event", ~raises)) \o SfxCalls(raises)
    /\ IF raises
       THEN Raise("SinkError")
       ELSE GeneratorResumes /\ UNCHANGED << exception, exit_status >>
    /\ UNCHANGED << clog, yelp_meteorite, args_containerd, cluster, stdin_read,
                    occurrence, container_inspect, env_vars, log_line, emitted >>

Next ==
    \/ MainExits
    \/ MainStarts
    \/ \E syslog \in Lines : ReadLine(syslog)
    \/ ReadEndOfInput
    \/ \E resp \in DockerResponses : ResolveDocker(resp)
    \/ \E resp \in ContainerdResponses : ResolveContainerd(resp)
    \/ Enrich
    \/ \E raises \in BOOLEAN : LogToClog(raises)
    \/ \E raises \in BOOLEAN : LogToPaasta(raises)
    \/ \E raises \in BOOLEAN : SendSfxEvent(raises)

Spec == Init /\ [][Next]_vars

\* ------------------------------------------------ reading the histories
Sinks == {"log_to_clog", "log_to_paasta", "send_sfx_event"}

\* ev was called while the occurrence of line n was being processed
Called(ev, n) ==
    \E i \in 1..Len(events) : events[i].ev = ev /\ events[i].line = n

Returned(ev, n) ==
    \E i \in 1..Len(events) :
        events[i].ev = ev /\ events[i].line = n /\ events[i].ok

Failed(ev, n) ==
    \E i \in 1..Len(events) :
        events[i].ev = ev /\ events[i].line = n /\ ~events[i].ok

\* the backend reported an error for the occurrence of line n
ResolverFailed(n) ==
    Failed("inspect_container", n) \/ Failed("containers.Get", n)

\* main() is about to call ev for the occurrence of line n
AboutToCall(ev, n) == pc = ev /\ CurLine = n

\* the occurrence of line n went to the sinks one after the other, as far as
\* each sink returned
Dispatched(n) ==
    /\ Called("log_to_clog", n) \/ AboutToCall("log_to_clog", n)
    /\ Returned("log_to_clog", n) =>
          Called("log_to_paasta", n) \/ AboutToCall("log_to_paasta", n)
    /\ Returned("log_to_paasta", n) =>
          Called("send_sfx_event", n) \/ AboutToCall("send_sfx_event", n)

\* ------------------------------------------------------------------- C1
\* C1: when the backend reports an error for an occurrence (APIError from
\* inspect_container, RpcError from the containerd Get), no sink is called
\* for it, main() is back at reading lines with no exception raised, and
\* every later occurrence whose environment map was obtained goes to the
\* sinks.
C1_ResolverFailureIsolated ==
    \A j \in 1..Len(emitted) :
        ResolverFailed(emitted[j].line) =>
            /\ \A s \in Sinks : ~Called(s, emitted[j].line)
            /\ ~Called("get_container_env_as_dict", emitted[j].line)
            /\ j = Len(emitted) =>
                  pc \in {"readline", "returned"} /\ exception = ""
            /\ \A k \in (j + 1)..Len(emitted) :
                  Returned("get_container_env_as_dict", emitted[k].line) =>
                      Dispatched(emitted[k].line)

\* a dropped occurrence, then a later one that reached all three sinks
C1_Witness ==
    \E j \in 1..Len(emitted) : \E k \in (j + 1)..Len(emitted) :
        /\ ResolverFailed(emitted[j].line)
        /\ \A s \in Sinks : Returned(s, emitted[k].line)

\* ------------------------------------------------------------------- C2
\* the lines among from..to of stdin that the process-name expression matches
NameLines(from, to) ==
    {k \in from..to : process_name_regex(stdin_read[k]).matched}

\* the line of the occurrence emitted before emitted[j], 0 for the first
PreviousKill(j) == IF j = 1 THEN 0 ELSE emitted[j - 1].line

\* C2: the process_name of each emitted occurrence is the name captured from
\* the most recent process-name line read since the previously emitted
\* occurrence (or since the start), and the empty string when there is none.
C2_MostRecentProcessName ==
    \A j \in 1..Len(emitted) :
        LET c == NameLines(PreviousKill(j) + 1, emitted[j].line)
        IN emitted[j].occ.process_name =
              IF c = {} THEN ""
              ELSE process_name_regex(
                       stdin_read[CHOOSE k \in c : \A m \in c : m <= k]).g1

\* two process-name lines, then a kill line that carries the second name
C2_Witness ==
    \E j \in 1..Len(emitted) :
        /\ Cardinality(NameLines(PreviousKill(j) + 1, emitted[j].line)) >= 2
        /\ emitted[j].occ.process_name = "python"
        /\ \E k \in 1..(emitted[j].line - 1) :
              process_name_regex(stdin_read[k]).g1 = "java"

\* ------------------------------------------------------------------- C3
\* C3: a captured name is attached to at most one occurrence.  Once an
\* occurrence has been emitted and main() is back at reading lines, after a
\* dispatch as well as after a drop, the slot is empty until a process-name
\* line is read; of two successive kill lines with no process-name line
\* after the first, the second carries the empty name.
C3_NameAttachedOnce ==
    /\ \A j \in 1..(Len(emitted) - 1) :
          NameLines(emitted[j].line + 1, emitted[j + 1].line) = {} =>
              emitted[j + 1].occ.process_name = ""
    /\ ( /\ emitted # <<>>
         /\ pc \in {"readline", "returned"}
         /\ NameLines(emitted[Len(emitted)].line + 1, Len(stdin_read)) = {} )
       => process_name = ""

\* an occurrence with a name is dropped on a resolver failure, and the next
\* kill line carries no name
C3_Witness ==
    \E j \in 1..(Len(emitted) - 1) :
        /\ emitted[j].occ.process_name # ""
        /\ ResolverFailed(emitted[j].line)
        /\ emitted[j + 1].occ.process_name = ""

\* ------------------------------------------------------------------- C4
\* C4: an occurrence for host H never carries a process name captured from
\* a process-name line of another host: a name it carries was captured from
\* a line of H read before it.
C4_NameFromSameHost ==
    \A j \in 1..Len(emitted) :
        emitted[j].occ.process_name # "" =>
            \E k \in 1..emitted[j].line :
                /\ process_name_regex(stdin_read[k]).matched
                /\ process_name_regex(stdin_read[k]).g1 = emitted[j].occ.process_name
                /\ stdin_read[k].host = emitted[j].occ.hostname

\* ------------------------------------------------------------------- C5
\* the order the claim gives: classic engine, kubernetes cgroup path,
\* kubernetes structured, kubernetes systemd+docker, systemd+containerd
ClaimedOrder ==
    << "oom_regex_docker",
       "oom_regex_kubernetes",
       "oom_regex_kubernetes_structured",
       "oom_regex_kubernetes_systemd_cgroup",
       "oom_regex_kubernetes_containerd_systemd_cgroup" >>

MatchingRecognizers(syslog) ==
    {n \in 1..Len(ClaimedOrder) : Search(ClaimedOrder[n], syslog).matched}

\* C5: every line produces at most one occurrence, and the occurrence holds
\* the captures of the first recognizer, in the claimed order, that matches
\* the line.
C5_FirstMatchWins ==
    /\ \A i, j \in 1..Len(emitted) : emitted[i].line = emitted[j].line => i = j
    /\ \A j \in 1..Len(emitted) :
          \E n \in 1..Len(ClaimedOrder) :
              LET r == Search(ClaimedOrder[n], stdin_read[emitted[j].line])
              IN /\ r.matched
                 /\ \A o \in 1..(n - 1) :
                       ~Search(ClaimedOrder[o], stdin_read[emitted[j].line]).matched
                 /\ emitted[j].occ.timestamp = ToInt(r.g1)
                 /\ emitted[j].occ.hostname = r.g2
                 /\ emitted[j].occ.container_id = r.g3

\* an occurrence from a line that two recognizers match with different ids
C5_Witness ==
    \E j \in 1..Len(emitted) :
        LET syslog == stdin_read[emitted[j].line]
        IN /\ Cardinality(MatchingRecognizers(syslog)) >= 2
           /\ \E n \in MatchingRecognizers(syslog) :
                 Search(ClaimedOrder[n], syslog).g3 # emitted[j].occ.container_id

\* ------------------------------------------------------------------- C6
Unrecognized(syslog) ==
    /\ ~process_name_regex(syslog).matched
    /\ MatchingRecognizers(syslog) = {}

\* C6: reading a line that neither the process-name recognizer nor a kill
\* recognizer matches emits no occurrence, raises nothing and leaves the
\* process-name slot and everything else but the input position unchanged.
C6_UnrecognizedLineSkipped ==
    [][ ( /\ Len(stdin_read') = Len(stdin_read) + 1
          /\ Unrecognized(stdin_read'[Len(stdin_read')]) )
        => /\ process_name' = process_name
           /\ emitted' = emitted
           /\ occurrence' = occurrence
           /\ events' = events
           /\ exception' = exception
           /\ exit_status' = exit_status
           /\ pc' = pc ]_vars

\* a process-name line, unrecognized lines, then a kill line that still
\* carries the name
C6_Witness ==
    \E j \in 1..Len(emitted) :
        /\ emitted[j].line >= 3
        /\ emitted[j].occ.process_name # ""
        /\ \A k \in 2..(emitted[j].line - 1) : Unrecognized(stdin_read[k])

\* ------------------------------------------------------------------- C7
\* main() has stopped working on the occurrence of line n
Left(n) == CurLine # n \/ pc \in {"readline", "returned", "raised"}

\* C7: the sinks are independent failure domains: a failure of log_to_clog
\* for an occurrence does not keep log_to_paasta and send_sfx_event from
\* being called for it, a failure of log_to_paasta does not keep
\* send_sfx_event from being called, and no sink failure ends main().
C7_SinksIndependent ==
    \A j \in 1..Len(emitted) :
        LET n == emitted[j].line
        IN /\ (Failed("log_to_clog", n) /\ Left(n)) =>
                 Called("log_to_paasta", n) /\ Called("send_sfx_event", n)
           /\ (Failed("log_to_paasta", n) /\ Left(n)) =>
                 Called("send_sfx_event", n)
           /\ (\E s \in Sinks : Failed(s, n)) => pc # "raised"

\* ------------------------------------------------------------------- C8
\* C8: with the containerd backend, a decode failure of the specification
\* payload (invalid UTF-8, or invalid JSON) drops the occurrence: no sink is
\* called for it and main() does not terminate.
C8_DecodeFailureDropsOccurrence ==
    \A j \in 1..Len(emitted) :
        LET n == emitted[j].line
        IN (Failed("decode", n) \/ Failed("json.loads", n)) =>
              /\ pc # "raised"
              /\ exception = ""
              /\ \A s \in Sinks : ~Called(s, n)

\* ------------------------------------------------------------------- C9
\* the config section of the inspect result is absent or null
ConfigAbsentOrNull(is_cri_containerd, inspect) ==
    DictGet(inspect, IF is_cri_containerd THEN "process" ELSE "Config").none

\* C9: get_container_env_as_dict returns an empty map and raises nothing
\* when the config section is absent or null, for both backends, and main()
\* goes on to dispatch the occurrence.
C9_NullConfigGivesEmptyMap ==
    (pc = "enrich" /\ ConfigAbsentOrNull(args_containerd, container_inspect)) =>
        LET r == get_container_env_as_dict(args_containerd, container_inspect)
        IN r.raised = "" /\ r.env_vars = <<>>

\* ------------------------------------------------------------------ C10
\* C10: every occurrence dropped because the backend reported an error has
\* a diagnostic printed for it before the next line is read, with the
\* classic-engine backend as with containerd.
C10_DropPrintsDiagnostic ==
    \A j \in 1..Len(emitted) :
        ResolverFailed(emitted[j].line) =>
            (Called("print", emitted[j].line) \/ Called("print_stderr", emitted[j].line))

\* --------------------------------------- the resolver on its own: SpecEnv
\* longest environment list a container declares
MaxEnvLen == 4

\* The strings an environment list may hold
EnvEntries ==
    { <<"PAASTA_SERVICE", "=", "web">>,
      <<"PAASTA_INSTANCE", "=", "main">>,
      <<"MESOS_CONTAINER_NAME", "=", "mesos-1">>,
      <<"PAASTA_RESOURCE_MEM", "=", "512">>,
      \* a name that occurs twice when listed after the first entry
      <<"PAASTA_SERVICE", "=", "api">>,
      \* a value that holds "=": "JAVA_OPTS=-Da=b"
      <<"JAVA_OPTS", "=", "-Da", "=", "b">>,
      \* a string without "="
      <<"NOEQ">> }

RECURSIVE SeqsUpTo(_, _)
SeqsUpTo(S, n) ==
    IF n = 0 THEN {<<>>}
    ELSE LET shorter == SeqsUpTo(S, n - 1)
         IN shorter \cup {Append(q, x) : q \in shorter, x \in S}

\* The inspect results whose config section holds an environment list
EnvInspects(is_cri_containerd) ==
    LET key == IF is_cri_containerd THEN "process" ELSE "Config"
        envkey == IF is_cri_containerd THEN "env" ELSE "Env"
    IN { [x \in {key} |-> PyDict([y \in {envkey} |-> env])] :
            env \in SeqsUpTo(EnvEntries, MaxEnvLen) }

\* The environment list of an inspect result of EnvInspects
EnvListOf(is_cri_containerd, inspect) ==
    IF is_cri_containerd THEN inspect["process"].d["env"]
    ELSE inspect["Config"].d["Env"]

\* main() has read one kill line and the backend has answered with an
\* inspect result: the state before "env_vars = get_container_env_as_dict(...)"
InitEnv ==
    /\ clog = TRUE
    /\ yelp_meteorite = TRUE
    /\ args_containerd \in BOOLEAN
    /\ pc = "enrich"
    /\ exit_status = -1
    /\ exception = ""
    /\ cluster = "norcal"
    /\ \E syslog \in {l \in Lines : FirstMatch(l, 1).matched} :
          LET r == FirstMatch(syslog, 1)
              name == NextProcessName(process_name_regex(syslog), "")
              t == [timestamp |-> ToInt(r.g1), hostname |-> r.g2,
                    container_id |-> r.g3, process_name |-> name]
          IN /\ stdin_read = <<syslog>>
             /\ process_name = name
             /\ occurrence = t
             /\ emitted = << [line |-> 1, occ |-> t] >>
    /\ container_inspect \in EnvInspects(args_containerd)
    /\ env_vars = <<>>
    /\ log_line = NoLogLine
    /\ events = << [ev |-> "get_docker_client", line |-> 0, ok |-> TRUE] >>
                \o IF args_containerd
                   THEN << [ev |-> "containers.Get", line |-> 1, ok |-> TRUE],
                           [ev |-> "decode", line |-> 1, ok |-> TRUE],
                           [ev |-> "json.loads", line |-> 1, ok |-> TRUE] >>
                   ELSE << [ev |-> "inspect_container", line |-> 1, ok |-> TRUE] >>

NextEnv == Enrich

SpecEnv == InitEnv /\ [][NextEnv]_vars

\* ------------------------------------------------------------------ C11
\* C11: each of the four attributes of the LogLine comes from its own
\* variable of the environment map, or is its own default when that
\* variable is absent, whatever the other three are: service from
\* PAASTA_SERVICE or "unknown", instance from PAASTA_INSTANCE or "unknown",
\* mesos_container_id from MESOS_CONTAINER_NAME or "mesos-null", mem_limit
\* from PAASTA_RESOURCE_MEM or "unknown"; timestamp, hostname, container_id
\* and process_name are those of the occurrence.
C11_DefaultsIndependent ==
    pc = "log_to_clog" =>
        /\ log_line.service =
              IF <<"PAASTA_SERVICE">> \in DOMAIN env_vars
              THEN env_vars[<<"PAASTA_SERVICE">>] ELSE <<"unknown">>
        /\ log_line.instance =
              IF <<"PAASTA_INSTANCE">> \in DOMAIN env_vars
              THEN env_vars[<<"PAASTA_INSTANCE">>] ELSE <<"unknown">>
        /\ log_line.mesos_container_id =
              IF <<"MESOS_CONTAINER_NAME">> \in DOMAIN env_vars
              THEN env_vars[<<"MESOS_CONTAINER_NAME">>] ELSE <<"mesos-null">>
        /\ log_line.mem_limit =
              IF <<"PAASTA_RESOURCE_MEM">> \in DOMAIN env_vars
              THEN env_vars[<<"PAASTA_RESOURCE_MEM">>] ELSE <<"unknown">>
        /\ log_line.timestamp = occurrence.timestamp
        /\ log_line.hostname = occurrence.hostname
        /\ log_line.container_id = occurrence.container_id
        /\ log_line.process_name = occurrence.process_name

\* a LogLine built from a map that holds two of the four variables and not
\* PAASTA_SERVICE, for an occurrence that carries a process name
C11_Witness ==
    /\ pc = "log_to_clog"
    /\ <<"PAASTA_SERVICE">> \notin DOMAIN env_vars
    /\ <<"MESOS_CONTAINER_NAME">> \notin DOMAIN env_vars
    /\ log_line.service = <<"unknown">>
    /\ log_line.instance = <<"main">>
    /\ log_line.mesos_container_id = <<"mesos-null">>
    /\ log_line.mem_limit = <<"512">>
    /\ log_line.process_name = "ruby"

\* ------------------------------------------------------------------ C12
\* the place of a call in the loop body: the resolver call and what belongs
\* to it, the environment map, then the three sinks
Stage(ev) ==
    CASE ev \in {"inspect_container", "containers.Get", "decode", "json.loads",
                 "print"} -> 1
      [] ev = "get_container_env_as_dict" -> 2
      [] ev = "log_to_clog" -> 3
      [] ev = "log_to_paasta" -> 4
      [] ev \in {"send_sfx_event", "get_instance_config", "emit_event",
                 "counter.count"} -> 5
      [] OTHER -> 0

StageCalls == {"inspect_container", "containers.Get", "log_to_clog",
               "log_to_paasta", "send_sfx_event"}

\* C12: the pipeline is synchronous.  The calls are made line after line,
\* those of one occurrence never among those of another; within one
\* occurrence the resolver call, log_to_clog, log_to_paasta and
\* send_sfx_event come in that order, each once; and when a later line has
\* been read, every earlier occurrence was either dropped by the resolver
\* or has had all three sinks return.
C12_Synchronous ==
    /\ \A i \in 1..(Len(events) - 1) :
          /\ events[i].line <= events[i + 1].line
          /\ events[i].line = events[i + 1].line =>
                /\ Stage(events[i].ev) <= Stage(events[i + 1].ev)
                /\ (events[i].ev \in StageCalls /\ events[i + 1].ev \in StageCalls)
                      => Stage(events[i].ev) < Stage(events[i + 1].ev)
    /\ \A j \in 1..Len(emitted) :
          emitted[j].line < Len(stdin_read) =>
              \/ ResolverFailed(emitted[j].line)
              \/ /\ Returned("inspect_container", emitted[j].line)
                    \/ Returned("containers.Get", emitted[j].line)
                 /\ \A s \in Sinks : Returned(s, emitted[j].line)

\* two occurrences, each gone through all three sinks
C12_Witness ==
    \E j \in 1..Len(emitted) : \E k \in (j + 1)..Len(emitted) :
        /\ \A s \in Sinks : Returned(s, emitted[j].line)
        /\ \A s \in Sinks : Returned(s, emitted[k].line)

\* ------------------------------------------------------------------ C13
\* every occurrence whose environment map was obtained has had the three
\* sinks return
ResolvedAreDispatched ==
    \A j \in 1..Len(emitted) :
        Returned("get_container_env_as_dict", emitted[j].line) =>
            \A s \in Sinks : Returned(s, emitted[j].line)

\* C13: when stdin is exhausted the scanner ends without error and main()
\* returns cleanly, every resolved occurrence before the end of input having
\* been dispatched; after that no line is read, no backend is called and no
\* sink is invoked.
C13_CleanEndOfInput ==
    /\ [](pc = "returned" =>
             exit_status = 0 /\ exception = "" /\ ResolvedAreDispatched)
    /\ [][ /\ (pc = "readline" /\ stdin_read' = stdin_read /\ pc' # pc) =>
                 (pc' = "returned" /\ exit_status' = 0 /\ exception' = ""
                  /\ events' = events /\ emitted' = emitted)
           /\ pc = "returned" =>
                 (pc' = pc /\ events' = events /\ stdin_read' = stdin_read
                  /\ emitted' = emitted) ]_vars

\* main() has returned after a dispatched occurrence and an unread rest
C13_Witness ==
    /\ pc = "returned"
    /\ exit_status = 0
    /\ \E j \in 1..Len(emitted) : \A s \in Sinks : Returned(s, emitted[j].line)

\* ------------------------------------------------------------------ C14
\* the calls made to a backend for the occurrence of line n
BackendCalls(n) ==
    {i \in 1..Len(events) :
        events[i].line = n /\ events[i].ev \in {"inspect_container", "containers.Get"}}

\* C14: one backend serves the whole run.  With args.containerd every
\* occurrence is resolved by one containerd Get and inspect_container is
\* never called; without it every occurrence is resolved by one
\* inspect_container and containerd is never called; a failure of the
\* selected backend is not followed by a call of the other.
C14_OneBackend ==
    /\ \A i \in 1..Len(events) :
          /\ args_containerd => events[i].ev # "inspect_container"
          /\ ~args_containerd =>
                events[i].ev \notin {"containers.Get", "decode", "json.loads"}
    /\ \A j \in 1..Len(emitted) :
          /\ Cardinality(BackendCalls(emitted[j].line)) <= 1
          /\ ~AboutToCall("resolve", emitted[j].line) =>
                Cardinality(BackendCalls(emitted[j].line)) = 1

\* with containerd selected, a Get that failed and a later one that returned
C14_Witness ==
    /\ args_containerd
    /\ \E j \in 1..Len(emitted) : \E k \in (j + 1)..Len(emitted) :
          /\ Failed("containers.Get", emitted[j].line)
          /\ Returned("containers.Get", emitted[k].line)

\* ------------------------------------------------------------------ C15
\* how many times ev was called for the occurrence of line n
Count(ev, n) ==
    Cardinality({i \in 1..Len(events) : events[i].ev = ev /\ events[i].line = n})

\* C15: without yelp_meteorite send_sfx_event makes no get_instance_config
\* lookup, emits no event, increments no counter and raises nothing, after
\* log_to_clog and log_to_paasta were called for the occurrence, and main()
\* goes on reading.  With yelp_meteorite every occurrence for which
\* send_sfx_event returned has exactly one event emitted and one counter
\* incremented, and no occurrence has more.
C15_MetricsOptional ==
    /\ ~yelp_meteorite =>
          /\ \A i \in 1..Len(events) :
                events[i].ev \notin {"get_instance_config", "emit_event",
                                     "counter.count"}
          /\ \A j \in 1..Len(emitted) :
                LET n == emitted[j].line
                IN /\ ~Failed("send_sfx_event", n)
                   /\ Returned("log_to_paasta", n) /\ Left(n) =>
                         Returned("send_sfx_event", n)
                   /\ Called("send_sfx_event", n) =>
                         /\ Called("log_to_clog", n) /\ Called("log_to_paasta", n)
                         /\ j = Len(emitted) =>
                               pc \in {"readline", "returned"} /\ exception = ""
    /\ yelp_meteorite =>
          \A j \in 1..Len(emitted) :
              LET n == emitted[j].line
              IN /\ Count("emit_event", n) <= 1
                 /\ Count("counter.count", n) <= 1
                 /\ Returned("send_sfx_event", n) =>
                       Count("emit_event", n) = 1 /\ Count("counter.count", n) = 1

\* without yelp_meteorite: an occurrence went through send_sfx_event and a
\* later occurrence was read
C15_Witness ==
    /\ ~yelp_meteorite
    /\ \E j \in 1..Len(emitted) : \E k \in (j + 1)..Len(emitted) :
          /\ Returned("send_sfx_event", emitted[j].line)
          /\ Returned("log_to_clog", emitted[k].line)

\* ------------------------------------------------------------------ C16
\* C16: when clog is None main() exits with status 1 before the loop: it
\* reads no line, calls no backend and no sink; all it does is print the
\* message to stderr.
C16_ExitsWithoutClog ==
    ~clog =>
        /\ pc \in {"main", "exited"}
        /\ pc = "exited" <=> exit_status = 1
        /\ pc = "main" <=> exit_status = -1
        /\ stdin_read = <<>>
        /\ emitted = <<>>
        /\ \A i \in 1..Len(events) : events[i].ev = "print_stderr"

\* main() has exited with status 1
C16_Witness ==
    /\ ~clog
    /\ pc = "exited"
    /\ exit_status = 1
    /\ Len(events) = 1

\* ------------------------------------------------------------------ C17
HasEq(e) == \E p \in 1..Len(e) : e[p] = "="

\* C17: an entry of the environment list that contains no "=" adds no key
\* to the map get_container_env_as_dict returns.
C17_MalformedEntriesAbsent ==
    pc = "log_to_clog" =>
        LET env == EnvListOf(args_containerd, container_inspect)
        IN \A i \in 1..Len(env) : ~HasEq(env[i]) => env[i] \notin DOMAIN env_vars

\* ------------------------------------------------------------------ C18
\* the place of the first "=" of an entry that has one
FirstEq(e) ==
    CHOOSE p \in 1..Len(e) : e[p] = "=" /\ \A q \in 1..(p - 1) : e[q] # "="

TextBeforeFirstEq(e) == SubSeq(e, 1, FirstEq(e) - 1)

TextAfterFirstEq(e) == SubSeq(e, FirstEq(e) + 1, Len(e))

\* C18: every NAME=value entry is split on its first "=": the name is the
\* text before it, the value everything after it, further "=" included; a
\* name that occurs several times maps to the value of its last entry.
C18_SplitOnFirstEq ==
    pc = "log_to_clog" =>
        LET env == EnvListOf(args_containerd, container_inspect)
            named == {i \in 1..Len(env) : HasEq(env[i])}
        IN \A i \in named :
              LET same == {k \in named :
                              TextBeforeFirstEq(env[k]) = TextBeforeFirstEq(env[i])}
                  last == CHOOSE k \in same : \A m \in same : m <= k
              IN /\ TextBeforeFirstEq(env[i]) \in DOMAIN env_vars
                 /\ env_vars[TextBeforeFirstEq(env[i])] = TextAfterFirstEq(env[last])

\* a map from a list with a value that holds "=" and a name listed twice
C18_Witness ==
    /\ pc = "log_to_clog"
    /\ <<"JAVA_OPTS">> \in DOMAIN env_vars
    /\ env_vars[<<"JAVA_OPTS">>] = <<"-Da", "=", "b">>
    /\ LET env == EnvListOf(args_containerd, container_inspect)
       IN \E i \in 1..Len(env) : \E k \in (i + 1)..Len(env) :
             /\ env[i] = <<"PAASTA_SERVICE", "=", "web">>
             /\ env[k] = <<"PAASTA_SERVICE", "=", "api">>
    /\ env_vars[<<"PAASTA_SERVICE">>] = <<"api">>

\* ---------------------------------------- the scanner on its own: SpecScan
\* \w, the characters an id segment is made of
WordChars ==
    << "a", "b", "c", "d", "e", "f", "g", "h", "i", "j", "k", "l", "m",
       "n", "o", "p", "q", "r", "s", "t", "u", "v", "w", "x", "y", "z",
       "A", "B", "C", "D", "E", "F", "G", "H", "I", "J", "K", "L", "M",
       "N", "O", "P", "Q", "R", "S", "T", "U", "V", "W", "X", "Y", "Z",
       "0", "1", "2", "3", "4", "5", "6", "7", "8", "9", "_" >>

\* an id segment of n word characters, no two neighbours alike
Seg(n) == [i \in 1..n |-> WordChars[((i - 1) % Len(WordChars)) + 1]]

\* the five layouts of a kill line
Layouts == {"docker", "kubepods", "structured", "systemd", "nerdctl"}

\* segment lengths around the two id lengths
SegLens ==
    {ShortIdLen - 1, ShortIdLen, ShortIdLen + 1,
     LongIdLen - 1, LongIdLen, LongIdLen + 1}

\* One line per layout and segment length
ScanLines ==
    { [ts |-> <<"3", "1">>, host |-> nodeA, frags |-> <<Frag(k, Seg(n))>>] :
         k \in Layouts, n \in SegLens }

\* main() is about to ask the scanner for its first occurrence
InitScan ==
    /\ clog = TRUE
    /\ yelp_meteorite = TRUE
    /\ args_containerd = FALSE
    /\ pc = "readline"
    /\ exit_status = -1
    /\ exception = ""
    /\ cluster = "norcal"
    /\ stdin_read = <<>>
    /\ process_name = ""
    /\ occurrence = NoOccurrence
    /\ container_inspect = <<>>
    /\ env_vars = <<>>
    /\ log_line = NoLogLine
    /\ emitted = <<>>
    /\ events = << [ev |-> "get_docker_client", line |-> 0, ok |-> TRUE] >>

\* the scanner reads on until a line yields an occurrence
NextScan == \E syslog \in ScanLines : ReadLine(syslog)

SpecScan == InitScan /\ [][NextScan]_vars

\* ------------------------------------------------------------------ C19
\* C19: the container_id of an emitted occurrence has 12 characters for the
\* classic-engine and the systemd+docker layouts, 64 for the nerdctl layout,
\* and for the two /kubepods layouts 64 when the id segment has at least 64
\* word characters and 12 otherwise; it is the leading part of the id
\* segment, the segment's further characters left out.
C19_IdLengthFollowsLayout ==
    \A j \in 1..Len(emitted) :
        LET f == stdin_read[emitted[j].line].frags[1]
            id == emitted[j].occ.container_id
        IN /\ f.k \in {"docker", "systemd"} => Len(id) = 12
           /\ f.k = "nerdctl" => Len(id) = 64
           /\ f.k \in {"kubepods", "structured"} =>
                 Len(id) = IF Len(f.txt) >= 64 THEN 64 ELSE 12
           /\ Len(id) <= Len(f.txt)
           /\ \A i \in 1..Len(id) : id[i] = f.txt[i]

\* a /kubepods line with 65 word characters gave a 64-character id, after a
\* classic-engine line with 12 gave none
C19_Witness ==
    /\ Len(stdin_read) = 2
    /\ stdin_read[1].frags[1].k = "docker"
    /\ Len(stdin_read[1].frags[1].txt) = 12
    /\ Len(emitted) = 1
    /\ emitted[1].line = 2
    /\ stdin_read[2].frags[1].k = "kubepods"
    /\ Len(stdin_read[2].frags[1].txt) = 65
    /\ Len(emitted[1].occ.container_id) = 64

\* ------------------------------------------------------------------ C20
\* the places of the process-name texts of a line
NameFrags(l) == {i \in 1..Len(l.frags) : l.frags[i].k = "procname"}

\* a line that yielded an occurrence and holds a process-name text as well
NamedKill(n) ==
    /\ \E j \in 1..Len(emitted) : emitted[j].line = n
    /\ NameFrags(stdin_read[n]) # {}

\* C20: a line that matches both the process-name expression and a kill
\* expression yields one occurrence, the occurrence carries the name
\* captured from that line whatever name was pending, and process_name is
\* empty when the scanner reads on.
C20_NameOfTheKillLine ==
    /\ \A j \in 1..Len(emitted) : \A m \in 1..Len(emitted) :
          emitted[j].line = emitted[m].line => j = m
    /\ \A j \in 1..Len(emitted) :
          LET l == stdin_read[emitted[j].line]
          IN NameFrags(l) # {} =>
                \E i \in NameFrags(l) :
                   /\ \A o \in NameFrags(l) : o <= i
                   /\ emitted[j].occ.process_name = l.frags[i].txt
    /\ (pc \in {"readline", "returned"} /\ stdin_read # <<>>
           /\ NamedKill(Len(stdin_read))) => process_name = ""

\* "java" was pending from the line before, the next line named "ruby" and
\* was a kill line: its occurrence says "ruby" and the scanner reads on
C20_Witness ==
    /\ pc = "readline"
    /\ Len(stdin_read) = 2
    /\ process_name = ""
    /\ NameFrags(stdin_read[1]) # {}
    /\ stdin_read[1].frags[1].txt = "java"
    /\ Len(emitted) = 1
    /\ emitted[1].line = 2
    /\ NamedKill(2)
    /\ emitted[1].occ.process_name = "ruby"

====
